---- MODULE Spec2Model ----
(***************************************************************************)
(* Model of the interactive Mandelbrot viewer (package main).              *)
(*                                                                         *)
(* The repository holds two revisions of the same program:                 *)
(*   "main"  src/main.go           if-chain key handling, --size flag,     *)
(*                                 zoom factors 0.997 / 1.003              *)
(*   "part"  src/unnamed/part_000  switch key handling, fixed window,      *)
(*                                 zoom factors 0.97 / 1.03                *)
(* The variable `variant` selects the revision; everything else is shared. *)
(*                                                                         *)
(* Numbers.  float64 coordinates are modelled as exact fixed-point         *)
(* rationals: the integer v stands for v / Scale.  Every division the      *)
(* model performs is exact (the input of a tick is only drawn among the    *)
(* key sets whose arithmetic is representable, see Representable), so the  *)
(* model is the program in exact arithmetic; float64 rounding is not       *)
(* modelled.                                                               *)
(*                                                                         *)
(* Granularity.  One action per Go statement that touches shared memory    *)
(* (mandelbrotBounds, pixelData.Pix, mandelbrotSprite, mandelbrotMu).      *)
(* The unsynchronised accesses to mandelbrotBounds and pixelData.Pix are   *)
(* interleaved at statement level.                                         *)
(***************************************************************************)
EXTENDS Integers, Sequences, FiniteSets, TLC

VARIABLES
    variant,          \* which revision of the program runs
    iterations,       \* the --iterations flag, as parsed (an unsigned integer)
    windowSize,       \* width = height of the window and of pixelData, in pixels
    mandelbrotBounds, \* the viewport rectangle (shared, unsynchronised)
    Pix,              \* pixelData.Pix: the one global pixel buffer
    mandelbrotSprite, \* the shared frame handle: Nil or the id of a sprite
    mandelbrotMu,     \* the RWMutex: [w |-> writer holds it, r |-> readers]
    dpc,              \* position of the main (display) thread in start()
    gpc,              \* position inside generate()
    genBy,            \* who runs generate(): "none", "main" or "go"
    started,          \* the background goroutine has been spawned
    passes,           \* number of generate() passes begun so far
    py, px, y, x,     \* locals of generate()
    newSprite,        \* local of generate()
    esc,              \* JustPressed(KeyEscape) was seen in the current tick
    kq,               \* key statements of the current tick still to execute
    scaleFactor,      \* local of the main loop
    temp,             \* tempMandelbrotSprite
    ticks,            \* number of loop iterations begun
    winErr,           \* pixelgl.NewWindow returned an error
    applied,          \* ghost: the key statements executed in the current tick
    panned,           \* ghost: some pan statement has been executed
    zooms,            \* ghost: number of zoom statements executed
    tickStart,        \* ghost: the viewport when the current tick began
    published,        \* ghost: number of stores to mandelbrotSprite so far
    readAt,           \* ghost: value of `published` when temp was copied
    readVp,           \* ghost: the viewport values generate() read for x and y
    presented         \* ghost: one entry per Draw call, in order

vars == <<variant, iterations, windowSize, mandelbrotBounds, Pix, mandelbrotSprite,
          mandelbrotMu, dpc, gpc, genBy, started, passes, py, px, y, x, newSprite,
          esc, kq, scaleFactor, temp, ticks, winErr, applied, panned, zooms, tickStart,
          published, readAt, readVp, presented>>

(***************************************************************************)
(* Bounds of the model.                                                    *)
(***************************************************************************)
MaxTicks == 2
MaxPasses == 3
\* Keys held together in one tick (SpecInput).
MaxHeld == 3

\* Fixed-point resolution: v stands for v / Scale.
Scale == 10^8

Nil == 0

(***************************************************************************)
(* Program constants.                                                      *)
(***************************************************************************)
colourContrast == 20
EscapeRadius == 16
DefaultIterations == 200

colourBlack == [R |-> 0, G |-> 0, B |-> 0, A |-> 0]

Keys == {"R", "F", "A", "D", "S", "W"}
KeyOrder == <<"R", "F", "A", "D", "S", "W">>

\* pixel.R(-2, -2, 2, 2)
InitialBounds == [MinX |-> -2 * Scale, MinY |-> -2 * Scale,
                  MaxX |-> 2 * Scale, MaxY |-> 2 * Scale]

(***************************************************************************)
(* Fixed-point arithmetic (package pixel's Vec and Rect, in exact          *)
(* arithmetic).  A vector is <<x, y>>, a rectangle a record of four        *)
(* fixed-point numbers, a factor such as 0.997 the pair <<997, 1000>>.     *)
(***************************************************************************)
Abs(v) == IF v < 0 THEN -v ELSE v

RECURSIVE GCD(_, _)
GCD(a, b) == IF b = 0 THEN a ELSE GCD(b, a % b)

\* v * num / den; exact when den divides v
MulRatio(v, num, den) == (v \div den) * num

\* Vec.Scaled(c) for the literal c = f[1] / f[2]
Scaled(v, f) == <<MulRatio(v[1], f[1], f[2]), MulRatio(v[2], f[1], f[2])>>
\* Vec.Add, Vec.Sub
Add(u, v) == <<u[1] + v[1], u[2] + v[2]>>
Sub(u, v) == <<u[1] - v[1], u[2] - v[2]>>

Min(r) == <<r.MinX, r.MinY>>
Max(r) == <<r.MaxX, r.MaxY>>
Rect(mn, mx) == [MinX |-> mn[1], MinY |-> mn[2], MaxX |-> mx[1], MaxY |-> mx[2]]

\* Rect.W, Rect.H, Rect.Size
W(r) == r.MaxX - r.MinX
H(r) == r.MaxY - r.MinY
Size(r) == <<W(r), H(r)>>

\* Rect.Center: Lerp(r.Min, r.Max, 0.5) = r.Min.Scaled(0.5).Add(r.Max.Scaled(0.5))
Center(r) == Add(Scaled(Min(r), <<1, 2>>), Scaled(Max(r), <<1, 2>>))

\* The quotient a / b of two fixed-point numbers as a reduced ratio <<num, den>>
Fraction(a, b) == LET g == GCD(Abs(a), Abs(b)) IN <<a \div g, b \div g>>

\* Rect.Resized(anchor, size):
\*   fraction := Vec{size.X / r.W(), size.Y / r.H()}
\*   Min: anchor.Add(r.Min.Sub(anchor).ScaledXY(fraction)), Max likewise
Resized(r, anchor, size) ==
    LET fx == Fraction(size[1], W(r))
        fy == Fraction(size[2], H(r))
        sc(v) == <<MulRatio(v[1], fx[1], fx[2]), MulRatio(v[2], fy[1], fy[2])>>
    IN  Rect(Add(anchor, sc(Sub(Min(r), anchor))),
             Add(anchor, sc(Sub(Max(r), anchor))))

\* Rect.Moved(delta): both corners are translated.
MovedMinOnly(r, delta) == Rect(Add(Min(r), delta), Max(r))
Moved(r, delta) == Rect(Add(Min(r), delta), Add(Max(r), delta))

\* The zoom factors of the two revisions (KeyR zooms in, KeyF zooms out).
ZoomFactor(v, k) ==
    IF v = "main" THEN (IF k = "R" THEN <<997, 1000>> ELSE <<1003, 1000>>)
                  ELSE (IF k = "R" THEN <<97, 100>> ELSE <<103, 100>>)

\* mandelbrotBounds.Resized(mandelbrotBounds.Center(), mandelbrotBounds.Size().Scaled(f))
ZoomOffCentre(v, r, k) == Resized(r, Min(r), Scaled(Size(r), ZoomFactor(v, k)))
Zoom(v, r, k) == Resized(r, Center(r), Scaled(Size(r), ZoomFactor(v, k)))

\* scaleFactor := initialBoundsSize.ScaledXY(mandelbrotBounds.Size()).Scaled(0.001)
\* (initialBoundsSize is the whole number 4 in both coordinates)
ScaleFactor(r) ==
    LET init == Size(InitialBounds)
        prod == <<(init[1] \div Scale) * W(r), (init[2] \div Scale) * H(r)>>
    IN  Scaled(prod, <<1, 1000>>)

\* The vector of one pan statement.
PanVector(sf, k) ==
    CASE k = "A" -> <<-sf[1], 0>>
      [] k = "D" -> <<sf[1], 0>>
      [] k = "S" -> <<0, -sf[2]>>
      [] k = "W" -> <<0, sf[2]>>

IsZoom(k) == k \in {"R", "F"}
IsPan(k) == k \in {"A", "D", "S", "W"}

\* One key statement of the main loop applied to the viewport.
ApplyKey(v, r, sf, k) == IF IsZoom(k) THEN Zoom(v, r, k) ELSE Moved(r, PanVector(sf, k))

(***************************************************************************)
(* Exactness of the fixed-point arithmetic.                                *)
(***************************************************************************)
\* generate() can map the pixels of an n x n window with viewport r
Mappable(r, n) == W(r) > 0 /\ H(r) > 0 /\ W(r) % n = 0 /\ H(r) % n = 0

\* ScaleFactor(r) is exact
CanScale(r) == (4 * W(r)) % 1000 = 0 /\ (4 * H(r)) % 1000 = 0

\* Zoom(v, r, k) is exact
CanZoom(v, r, k) ==
    LET f == ZoomFactor(v, k) IN
    /\ r.MinX % 2 = 0 /\ r.MinY % 2 = 0 /\ r.MaxX % 2 = 0 /\ r.MaxY % 2 = 0
    /\ W(r) % f[2] = 0 /\ H(r) % f[2] = 0
    /\ LET c == Center(r) IN
       /\ (r.MinX - c[1]) % f[2] = 0 /\ (r.MaxX - c[1]) % f[2] = 0
       /\ (r.MinY - c[2]) % f[2] = 0 /\ (r.MaxY - c[2]) % f[2] = 0

\* The key statements ks, run in order from viewport r with scale factor sf,
\* are all exact and every viewport they produce can be mapped by generate().
RECURSIVE Representable(_, _, _, _, _)
Representable(v, r, sf, ks, n) ==
    IF ks = <<>> THEN TRUE
    ELSE /\ IsZoom(Head(ks)) => CanZoom(v, r, Head(ks))
         /\ Mappable(ApplyKey(v, r, sf, Head(ks)), n)
         /\ Representable(v, ApplyKey(v, r, sf, Head(ks)), sf, Tail(ks), n)

(***************************************************************************)
(* processPixel.                                                           *)
(***************************************************************************)
\* uint8 conversion and arithmetic
Uint8(n) == n % 256

\* complex128 multiplication and addition on <<re, im>> (whole numbers)
CMulAdd(z, c) == <<z[1] * z[1] - z[2] * z[2] + c[1], 2 * z[1] * z[2] + c[2]>>
\* cmplx.Abs(z) > 16
Escaped(z) == z[1] * z[1] + z[2] * z[2] > EscapeRadius * EscapeRadius

\* color.RGBA{R: 60 - colourContrast*n, G: 180 - colourContrast*n, B: colourContrast*n, A: 255}
EscapeColour(n) == [R |-> Uint8(60 - colourContrast * n),
                    G |-> Uint8(180 - colourContrast * n),
                    B |-> Uint8(colourContrast * n),
                    A |-> 255]

\* The state of the loop of processPixel: z, n and, once the function has
\* returned, the colour returned.
Running == [returned |-> FALSE]
LoopState(z, n, ret) == [z |-> z, n |-> n, ret |-> ret]

\* One evaluation of the loop condition and, when it holds, of the body:
\*   for n := uint8(0); n < limit; n++ {
\*       z = z*z + c
\*       if cmplx.Abs(z) > 16 { return color.RGBA{...} }
\*   }
\*   return colourBlack
LoopStep(c, s, limit) ==
    IF s.ret # Running THEN s
    ELSE IF s.n >= limit THEN LoopState(s.z, s.n, colourBlack)
    ELSE LET z1 == CMulAdd(s.z, c) IN
         IF Escaped(z1) THEN LoopState(z1, s.n, EscapeColour(s.n))
                        ELSE LoopState(z1, s.n + 1, Running)

\* k successive loop steps from state s (split in halves to keep the
\* evaluation shallow; the steps run in order).
RECURSIVE LoopSteps(_, _, _, _)
LoopSteps(c, s, k, limit) ==
    IF k = 0 \/ s.ret # Running THEN s
    ELSE IF k = 1 THEN LoopStep(c, s, limit)
    ELSE LoopSteps(c, LoopSteps(c, s, k \div 2, limit), k - (k \div 2), limit)

\* The loop run to its return, from z and n.
PixelLoop(c, z, n, limit) ==
    LoopSteps(c, LoopState(z, n, Running), (IF limit > n THEN limit - n ELSE 0) + 1,
              limit).ret

\* The loop bound of processPixel: uint8(iterations) in both revisions.
LoopLimit(N) == Uint8(N)

\* func processPixel(c complex128) color.RGBA, for the flag value N
processPixel(c, N) == PixelLoop(c, <<0, 0>>, 0, LoopLimit(N))

(***************************************************************************)
(* generate(): the pixel-to-plane mapping.                                 *)
(***************************************************************************)
\* y := py/windowSize*(Max.Y-Min.Y) + Min.Y      (and the same for x)
MapY(r, n, j) == (H(r) \div n) * j + r.MinY
MapXNoOffset(r, n, i) == (W(r) \div n) * i
MapX(r, n, i) == (W(r) \div n) * i + r.MinX

\* pixelData.Index(pixel.V(px, py))
Index(n, i, j) == j * n + i

\* pixel.MakePictureData: every pixel zeroed.  A pixel of the buffer is kept as
\* the coordinate c = <<x, y>> it was computed for (its colour is
\* processPixel(c), a pure function of c and the flag), with two ghost fields:
\* the pass that wrote it and the viewport values that pass read for it.
ZeroPixel == [pass |-> 0, c |-> <<0, 0>>, vp |-> InitialBounds]
MakePictureData(n) == [i \in 0 .. (n * n - 1) |-> ZeroPixel]

\* The colour stored in a pixel.  It is evaluated only where the coordinate is
\* a whole number (every pixel of the initial viewport with a window of 1, 2
\* or 4 pixels): the orbit is then computed exactly.
PixelColour(p, N) ==
    IF p.pass = 0 THEN colourBlack
    ELSE processPixel(<<p.c[1] \div Scale, p.c[2] \div Scale>>, N)

(***************************************************************************)
(* Inputs.                                                                 *)
(***************************************************************************)
\* The sets of keys win.Pressed may report in one tick.
\* With the generator running: nothing, a zoom key, a pan key.
KeySets == {{}, {"R"}, {"D"}}
\* With the display thread alone: every set of at most MaxHeld keys.
KeySetsInput == {s \in SUBSET Keys : Cardinality(s) <= MaxHeld}

HeldInOrder(hs) == LET isHeld(k) == k \in hs IN SelectSeq(KeyOrder, isHeld)

\* The key statements one tick executes.  main.go tests every key in turn
\* (a chain of ifs); part_000 runs the first matching case of a switch.
PendingKeys(v, hs) ==
    IF v = "main" THEN HeldInOrder(hs)
    ELSE IF HeldInOrder(hs) = <<>> THEN <<>> ELSE <<Head(HeldInOrder(hs))>>

\* Where the main loop goes once the key statements q are left to run.
NextPc(q) == IF q = <<>> THEN "rlock" ELSE "keys"

\* if win.JustPressed(pixelgl.KeyEscape) { return }
AfterEscapeIgnored(q) == NextPc(q)
AfterEscape(q) == "returned"

\* if err != nil { ...; return }, else on to the initial generate()
AfterNewWindowNoCheck(err) == "generate"
AfterNewWindow(err) == IF err THEN "returned" ELSE "generate"

\* Where start() goes after NewWindow succeeded: generate() first, then the
\* goroutine and the loop.
FirstGenerateSkipped == "spawn"
FirstGenerate == "generate"

\* mandelbrotSprite = newSprite
PublishedFirstOnly(old, new) == IF old = Nil THEN new ELSE old
PublishedHandle(old, new) == new

(***************************************************************************)
(* Initial states.                                                         *)
(***************************************************************************)
Sizes == {2}
FrameSizes == {1, 2, 4}
Budgets == {0, 1, 2, 3, 4, 5, 50, 200, 255, 256, 258, 300}

InitWith(vs, ns, ss) ==
    /\ variant \in vs
    /\ iterations \in ns
    /\ windowSize \in ss
    /\ mandelbrotBounds = InitialBounds
    \* part_000 makes pixelData when the package is initialised, main.go in start()
    /\ Pix = IF variant = "part" THEN MakePictureData(windowSize) ELSE <<>>
    /\ mandelbrotSprite = Nil
    /\ mandelbrotMu = [w |-> FALSE, r |-> 0]
    /\ dpc = "newWindow"
    /\ gpc = "idle"
    /\ genBy = "none"
    /\ started = FALSE
    /\ passes = 0
    /\ py = 0 /\ px = 0 /\ y = 0 /\ x = 0
    /\ newSprite = Nil
    /\ esc = FALSE
    /\ kq = <<>>
    /\ scaleFactor = <<0, 0>>
    /\ temp = Nil
    /\ ticks = 0
    /\ winErr = FALSE
    /\ applied = <<>>
    /\ panned = FALSE
    /\ zooms = 0
    /\ tickStart = InitialBounds
    /\ published = 0
    /\ readAt = 0
    /\ readVp = InitialBounds
    /\ presented = <<>>

Init == InitWith({"main", "part"}, {DefaultIterations}, Sizes)

InitFrame == InitWith({"main", "part"}, Budgets, FrameSizes)

(***************************************************************************)
(* generate()                                                              *)
(***************************************************************************)
genVars == <<gpc, genBy, passes, py, px, y, x, newSprite, readVp>>
inputVars == <<esc, kq, scaleFactor, ticks, tickStart, applied, panned, zooms>>
configVars == <<variant, iterations, windowSize>>

\* The process has not exited and somebody is inside generate().
Generating == genBy # "none" /\ dpc \notin {"returned", "panicked"}

\* for py := 0.0; py < windowSize; py++ { y := ... }   and, after the loop,
\* newSprite := pixel.NewSprite(pixelData, pixelData.Bounds())
GenRow ==
    /\ Generating /\ gpc = "row"
    /\ IF py < windowSize
       THEN /\ y' = MapY(mandelbrotBounds, windowSize, py)
            /\ readVp' = [readVp EXCEPT !.MinY = mandelbrotBounds.MinY,
                                        !.MaxY = mandelbrotBounds.MaxY]
            /\ px' = 0
            /\ gpc' = "col"
            /\ UNCHANGED newSprite
       ELSE /\ newSprite' = passes
            /\ gpc' = "lock"
            /\ UNCHANGED <<y, px, readVp>>
    /\ UNCHANGED <<configVars, inputVars, mandelbrotBounds, Pix, mandelbrotSprite,
                   mandelbrotMu, dpc, genBy, started, passes, py, x, temp, winErr,
                   published, readAt, presented>>

\* for px := 0.0; px < windowSize; px++ { x := ...; z := complex(x, y)
GenCol ==
    /\ Generating /\ gpc = "col"
    /\ IF px < windowSize
       THEN /\ x' = MapX(mandelbrotBounds, windowSize, px)
            /\ readVp' = [readVp EXCEPT !.MinX = mandelbrotBounds.MinX,
                                        !.MaxX = mandelbrotBounds.MaxX]
            /\ gpc' = "store"
            /\ UNCHANGED py
       ELSE /\ py' = py + 1
            /\ gpc' = "row"
            /\ UNCHANGED <<x, readVp>>
    /\ UNCHANGED <<configVars, inputVars, mandelbrotBounds, Pix, mandelbrotSprite,
                   mandelbrotMu, dpc, genBy, started, passes, px, y, newSprite, temp,
                   winErr, published, readAt, presented>>

\* i := pixelData.Index(pixel.V(px, py)); pixelData.Pix[i] = processPixel(z)
GenStore ==
    /\ Generating /\ gpc = "store"
    /\ Pix' = [Pix EXCEPT ![Index(windowSize, px, py)] =
                   [pass |-> passes, c |-> <<x, y>>, vp |-> readVp]]
    /\ px' = px + 1
    /\ gpc' = "col"
    /\ UNCHANGED <<configVars, inputVars, mandelbrotBounds, mandelbrotSprite,
                   mandelbrotMu, dpc, genBy, started, passes, py, y, x, newSprite,
                   readVp, temp, winErr, published, readAt, presented>>

\* mandelbrotMu.Lock()
GenLock ==
    /\ Generating /\ gpc = "lock"
    /\ ~mandelbrotMu.w /\ mandelbrotMu.r = 0
    /\ mandelbrotMu' = [mandelbrotMu EXCEPT !.w = TRUE]
    /\ gpc' = "publish"
    /\ UNCHANGED <<configVars, inputVars, mandelbrotBounds, Pix, mandelbrotSprite,
                   dpc, genBy, started, passes, py, px, y, x, newSprite, readVp, temp,
                   winErr, published, readAt, presented>>

\* mandelbrotSprite = newSprite
GenPublish ==
    /\ Generating /\ gpc = "publish"
    /\ mandelbrotSprite' = PublishedHandle(mandelbrotSprite, newSprite)
    /\ published' = published + 1
    /\ gpc' = "unlock"
    /\ UNCHANGED <<configVars, inputVars, mandelbrotBounds, Pix, mandelbrotMu, dpc,
                   genBy, started, passes, py, px, y, x, newSprite, readVp, temp,
                   winErr, readAt, presented>>

\* mandelbrotMu.Unlock() and the return from generate(): to start() after the
\* initial call, to the top of the goroutine's for loop otherwise.
GenUnlock ==
    /\ Generating /\ gpc = "unlock"
    /\ mandelbrotMu' = [mandelbrotMu EXCEPT !.w = FALSE]
    /\ IF genBy = "main"
       THEN /\ dpc' = "spawn"
            /\ genBy' = "none"
            /\ gpc' = "idle"
       ELSE /\ gpc' = "start"
            /\ UNCHANGED <<dpc, genBy>>
    /\ UNCHANGED <<configVars, inputVars, mandelbrotBounds, Pix, mandelbrotSprite,
                   started, passes, py, px, y, x, newSprite, readVp, temp, winErr,
                   published, readAt, presented>>

\* for { generate() }: the goroutine enters generate() once more
GenBegin ==
    /\ Generating /\ gpc = "start"
    /\ passes < MaxPasses
    /\ passes' = passes + 1
    /\ py' = 0
    /\ gpc' = "row"
    /\ UNCHANGED <<configVars, inputVars, mandelbrotBounds, Pix, mandelbrotSprite,
                   mandelbrotMu, dpc, genBy, started, px, y, x, newSprite, readVp,
                   temp, winErr, published, readAt, presented>>

(***************************************************************************)
(* start()                                                                 *)
(***************************************************************************)
\* win, err := pixelgl.NewWindow(cfg); if err != nil { return }
\* pixelData = pixel.MakePictureData(windowBounds); generate()
NewWindow ==
    /\ dpc = "newWindow"
    /\ \E err \in BOOLEAN :
        /\ winErr' = err
        /\ IF AfterNewWindow(err) = "returned"
           THEN /\ dpc' = "returned"
                /\ UNCHANGED <<Pix, genBy, gpc, py, passes>>
           ELSE /\ Pix' = MakePictureData(windowSize)
                /\ dpc' = FirstGenerate
                /\ IF FirstGenerate = "generate"
                   THEN genBy' = "main" /\ gpc' = "row" /\ py' = 0 /\ passes' = passes + 1
                   ELSE UNCHANGED <<genBy, gpc, py, passes>>
    /\ UNCHANGED <<configVars, inputVars, mandelbrotBounds, mandelbrotSprite,
                   mandelbrotMu, started, px, y, x, newSprite, readVp, temp, published,
                   readAt, presented>>

\* go func() { for { generate() } }(); frameRateLimiter := ...; initialBoundsSize := ...
Spawn ==
    /\ dpc = "spawn"
    /\ started' = TRUE
    /\ genBy' = "go"
    /\ gpc' = "start"
    /\ dpc' = "loop"
    /\ UNCHANGED <<configVars, inputVars, mandelbrotBounds, Pix, mandelbrotSprite,
                   mandelbrotMu, passes, py, px, y, x, newSprite, readVp, temp, winErr,
                   published, readAt, presented>>

\* for !win.Closed(): the window reports closed
WinClosed ==
    /\ dpc = "loop"
    /\ dpc' = "returned"
    /\ UNCHANGED <<configVars, inputVars, genVars, mandelbrotBounds, Pix,
                   mandelbrotSprite, mandelbrotMu, started, temp, winErr, published,
                   readAt, presented>>

\* One iteration begins: scaleFactor is computed and the input of the tick is
\* polled.  Escape is tested before every other key.
PollInput(e, hs) ==
    /\ dpc = "loop"
    /\ ticks < MaxTicks
    /\ CanScale(mandelbrotBounds)
    /\ Representable(variant, mandelbrotBounds, ScaleFactor(mandelbrotBounds),
                     PendingKeys(variant, hs), windowSize)
    /\ ticks' = ticks + 1
    /\ scaleFactor' = ScaleFactor(mandelbrotBounds)
    /\ tickStart' = mandelbrotBounds
    /\ applied' = <<>>
    /\ esc' = e
    /\ kq' = PendingKeys(variant, hs)
    /\ dpc' = IF e THEN AfterEscape(kq') ELSE NextPc(kq')
    /\ UNCHANGED <<configVars, genVars, mandelbrotBounds, Pix, mandelbrotSprite,
                   mandelbrotMu, started, temp, winErr, panned, zooms, published,
                   readAt, presented>>

EscapePressed == \E hs \in KeySets : PollInput(TRUE, hs)
TickBegin == \E hs \in KeySets : PollInput(FALSE, hs)

\* The same with the wider input sets.
EscapePressedInput == \E hs \in KeySetsInput : PollInput(TRUE, hs)
TickBeginInput == \E hs \in KeySetsInput : PollInput(FALSE, hs)

\* One key statement: mandelbrotBounds = mandelbrotBounds.Resized(...) / .Moved(...)
KeyStep ==
    /\ dpc = "keys"
    /\ kq # <<>>
    /\ mandelbrotBounds' = ApplyKey(variant, mandelbrotBounds, scaleFactor, Head(kq))
    /\ applied' = Append(applied, Head(kq))
    /\ panned' = (panned \/ IsPan(Head(kq)))
    /\ zooms' = zooms + (IF IsZoom(Head(kq)) THEN 1 ELSE 0)
    /\ kq' = Tail(kq)
    /\ dpc' = NextPc(kq')
    /\ UNCHANGED <<configVars, genVars, Pix, mandelbrotSprite, mandelbrotMu, started,
                   esc, scaleFactor, ticks, tickStart, temp, winErr, published,
                   readAt, presented>>

\* win.Clear(colourBlack); mandelbrotMu.RLock()
RLock ==
    /\ dpc = "rlock"
    /\ ~mandelbrotMu.w
    /\ mandelbrotMu' = [mandelbrotMu EXCEPT !.r = 1]
    /\ dpc' = "copy"
    /\ UNCHANGED <<configVars, inputVars, genVars, mandelbrotBounds, Pix,
                   mandelbrotSprite, started, temp, winErr, published, readAt,
                   presented>>

\* tempMandelbrotSprite := mandelbrotSprite
CopyHandle ==
    /\ dpc = "copy"
    /\ temp' = mandelbrotSprite
    /\ readAt' = published
    /\ dpc' = "runlock"
    /\ UNCHANGED <<configVars, inputVars, genVars, mandelbrotBounds, Pix,
                   mandelbrotSprite, mandelbrotMu, started, winErr, published,
                   presented>>

\* mandelbrotMu.RUnlock()
RUnlock ==
    /\ dpc = "runlock"
    /\ mandelbrotMu' = [mandelbrotMu EXCEPT !.r = 0]
    /\ dpc' = "draw"
    /\ UNCHANGED <<configVars, inputVars, genVars, mandelbrotBounds, Pix,
                   mandelbrotSprite, started, temp, winErr, published, readAt,
                   presented>>

\* tempMandelbrotSprite.Draw(win, ...); win.Update(); <-frameRateLimiter
\* The sprite refers to pixelData: what is drawn is the buffer as it is now.
\* Drawing a nil sprite dereferences a nil pointer.
Draw ==
    /\ dpc = "draw"
    /\ IF temp = Nil
       THEN dpc' = "panicked" /\ UNCHANGED presented
       ELSE /\ dpc' = "loop"
            /\ presented' = Append(presented,
                   [sprite |-> temp, tick |-> ticks,
                    pix |-> {Pix[i].pass : i \in DOMAIN Pix}])
    /\ UNCHANGED <<configVars, inputVars, genVars, mandelbrotBounds, Pix,
                   mandelbrotSprite, mandelbrotMu, started, temp, winErr, published,
                   readAt>>

Next ==
    \/ NewWindow
    \/ Spawn
    \/ WinClosed
    \/ EscapePressed
    \/ TickBegin
    \/ KeyStep
    \/ RLock
    \/ CopyHandle
    \/ RUnlock
    \/ Draw
    \/ GenRow
    \/ GenCol
    \/ GenStore
    \/ GenLock
    \/ GenPublish
    \/ GenUnlock
    \/ GenBegin

Spec == Init /\ [][Next]_vars

\* start() up to the end of the initial generate(), over a range of window
\* sizes and iteration budgets.
NextFrame ==
    \/ NewWindow
    \/ GenRow
    \/ GenCol
    \/ GenStore
    \/ GenLock
    \/ GenPublish
    \/ GenUnlock

SpecFrame == InitFrame /\ [][NextFrame]_vars

\* The display thread alone: the goroutine is spawned but not yet scheduled,
\* and more keys may be held together.  (generate() never writes the viewport
\* nor any local of the main loop.)
NextInput ==
    \/ NewWindow
    \/ GenRow
    \/ GenCol
    \/ GenStore
    \/ GenLock
    \/ GenPublish
    \/ GenUnlock
    \/ Spawn
    \/ WinClosed
    \/ EscapePressedInput
    \/ TickBeginInput
    \/ KeyStep
    \/ RLock
    \/ CopyHandle
    \/ RUnlock
    \/ Draw

SpecInput == Init /\ [][NextInput]_vars

(***************************************************************************)
(* Properties.                                                             *)
(***************************************************************************)
Pixels == DOMAIN Pix
Coords == 0 .. (windowSize - 1)

\* a = b * f for the ratio f = <<num, den>> (in lowest terms), without
\* forming the products
ScalesBy(a, b, f) == b % f[2] = 0 /\ a = (b \div f[2]) * f[1]

\* The step being taken is a key statement of the main loop for key k.
KeyStatement(k) == dpc = "keys" /\ kq # <<>> /\ Head(kq) = k /\ applied' # applied

\* C1: every frame the display loop presents is a completed frame buffer: at
\* each Draw, every pixel of the buffer behind the drawn handle was written by
\* the one finished generate() pass that created the handle.
C1_PresentedFramesComplete ==
    \A k \in DOMAIN presented : presented[k].pix = {presented[k].sprite}

\* C2: all pixels of a published frame were mapped with one and the same
\* viewport rectangle, the one read at the start of the pass.
C2_ViewportReadOncePerPass ==
    gpc = "unlock" => \A i \in Pixels : Pix[i].vp = Pix[0].vp

\* C3: the flag value N is the iteration cap for every N, also N >= 256: a
\* pixel gets the escape colour of step n when its orbit first leaves the disc
\* of radius 16 at a step n < N, and the inside colour only after N steps.
C3_IterationCapIsFlagValue ==
    \A i \in Pixels :
        Pix[i].pass > 0 =>
            PixelColour(Pix[i], iterations) =
                PixelLoop(<<Pix[i].c[1] \div Scale, Pix[i].c[2] \div Scale>>,
                          <<0, 0>>, 0, iterations)

\* C4: the display loop is Running or Closed; it leaves Running only at the top
\* of a tick, on Escape or on the window being closed, and never comes back; in
\* the tick where Escape is seen the viewport is not changed and nothing is
\* presented, whatever other keys are held.
C4_RunningThenClosed ==
    [][ /\ (dpc = "returned" => dpc' = "returned")
        /\ (dpc # "newWindow" /\ dpc # "returned" /\ dpc' = "returned" => dpc = "loop")
        /\ (esc' => /\ dpc' = "returned"
                    /\ applied' = <<>>
                    /\ mandelbrotBounds' = tickStart'
                    /\ \A k \in DOMAIN presented' : presented'[k].tick < ticks')
      ]_vars

C4_EscapeWithKeysHeld == esc /\ dpc = "returned" /\ Len(kq) >= 2

\* C5: with viewport [-2,2]x[-2,2], a 4x4 window and 50 iterations, pixel
\* (px,py) is mapped to (-2+px) + (-2+py)i, the four corner pixels get an escape
\* colour of one of the first 5 iterations and the pixel mapped to 0 gets the
\* inside colour; for every iteration budget the pixel mapped to 0 gets the
\* inside colour.
C5_FourByFourFrame ==
    /\ (windowSize = 4 /\ iterations = 50 /\ mandelbrotSprite # Nil) =>
         /\ \A i \in 0 .. 3, j \in 0 .. 3 :
                Pix[Index(4, i, j)].c = <<(i - 2) * Scale, (j - 2) * Scale>>
         /\ \A i \in {0, 3}, j \in {0, 3} :
                PixelColour(Pix[Index(4, i, j)], iterations)
                    \in {EscapeColour(n) : n \in 0 .. 4}
         /\ PixelColour(Pix[Index(4, 2, 2)], iterations) = colourBlack
    /\ \A i \in Pixels :
         (Pix[i].pass > 0 /\ Pix[i].c = <<0, 0>>) =>
             PixelColour(Pix[i], iterations) = colourBlack

C5_FrameGenerated ==
    /\ windowSize = 4 /\ iterations = 50 /\ mandelbrotSprite # Nil
    /\ Pix[Index(4, 2, 2)].pass = 1 /\ Pix[Index(4, 2, 2)].c = <<0, 0>>

\* What every pan statement does: both corners move by the pan vector, which
\* lies along the panned axis.
PanTranslates(k) ==
    LET d == Sub(Min(mandelbrotBounds'), Min(mandelbrotBounds)) IN
    /\ Sub(Max(mandelbrotBounds'), Max(mandelbrotBounds)) = d
    /\ Size(mandelbrotBounds') = Size(mandelbrotBounds)
    /\ IF k \in {"A", "D"} THEN d[2] = 0 ELSE d[1] = 0

\* 1000 * |pan vector| = 4 * (extent of r along the panned axis)
PanLengthIs(k, r) ==
    LET d == Sub(Min(mandelbrotBounds'), Min(mandelbrotBounds)) IN
    IF k \in {"A", "D"} THEN 1000 * Abs(d[1]) = 4 * W(r)
                        ELSE 1000 * Abs(d[2]) = 4 * H(r)

\* C6 (as claimed): a pan statement translates Min and Max by the same vector,
\* whose length is 0.004 of the viewport's current extent along the panned
\* axis, for every combination of keys held in the tick.
C6_PanFractionOfCurrentExtent ==
    [][\A k \in {"A", "D", "S", "W"} :
          KeyStatement(k) => PanTranslates(k) /\ PanLengthIs(k, mandelbrotBounds)
      ]_vars

\* C6 (amended): a pan statement translates Min and Max by the same vector,
\* whose length is 0.004 of the extent the viewport had along the panned axis
\* when the tick began; pans alone never change the width and height.
C6_PanFractionOfTickStartExtent ==
    [][ /\ \A k \in {"A", "D", "S", "W"} :
              KeyStatement(k) => PanTranslates(k) /\ PanLengthIs(k, tickStart)
        /\ (zooms' = 0 => Size(mandelbrotBounds') = Size(InitialBounds))
      ]_vars

C6_PanAfterZoomInSameTick ==
    /\ Len(applied) >= 2 /\ IsZoom(applied[1]) /\ IsPan(applied[Len(applied)])
    /\ Size(mandelbrotBounds) # Size(tickStart)

\* C7: a zoom statement with factor f keeps the centre of the viewport and
\* multiplies its width and height by f; the coordinate of every pixel moves
\* to centre + f * (coordinate - centre); as long as no pan was made the centre
\* is the centre of the initial viewport.  (Written with doubled coordinates:
\* twice the centre is Min + Max.)
C7_ZoomAboutCentre ==
    [][ /\ \A k \in {"R", "F"} :
              KeyStatement(k) =>
                LET f == ZoomFactor(variant, k)
                    b == mandelbrotBounds
                    n == mandelbrotBounds'
                    cx2 == b.MinX + b.MaxX
                    cy2 == b.MinY + b.MaxY
                IN  /\ n.MinX + n.MaxX = cx2
                    /\ n.MinY + n.MaxY = cy2
                    /\ ScalesBy(W(n), W(b), f)
                    /\ ScalesBy(H(n), H(b), f)
                    /\ \A i \in Coords :
                         /\ ScalesBy(2 * MapX(n, windowSize, i) - cx2,
                                     2 * MapX(b, windowSize, i) - cx2, f)
                         /\ ScalesBy(2 * MapY(n, windowSize, i) - cy2,
                                     2 * MapY(b, windowSize, i) - cy2, f)
        /\ (~panned' => Add(Min(mandelbrotBounds'), Max(mandelbrotBounds'))
                           = Add(Min(InitialBounds), Max(InitialBounds)))
      ]_vars

C7_TwoZoomSteps ==
    /\ zooms >= 2 /\ ~panned
    /\ W(mandelbrotBounds) # W(InitialBounds)
    /\ Add(Min(mandelbrotBounds), Max(mandelbrotBounds)) = <<0, 0>>

\* C8: when window creation fails start() returns at once: no generate() pass,
\* no goroutine, the frame handle never written, no input polled, nothing
\* presented.
C8_WindowFailureReturns ==
    winErr => /\ dpc = "returned"
              /\ passes = 0 /\ genBy = "none" /\ gpc = "idle"
              /\ ~started
              /\ mandelbrotSprite = Nil /\ published = 0
              /\ ticks = 0
              /\ presented = <<>>

C8_WindowFailed == winErr /\ dpc = "returned"

\* Some statement of generate() (or the goroutine's loop) can run.
GeneratorCanStep ==
    ENABLED (GenRow \/ GenCol \/ GenStore \/ GenLock \/ GenPublish \/ GenUnlock
             \/ GenBegin)

\* C9: the handle the display loop copies is the one most recently published;
\* presented frames follow publication order; the generator never waits for
\* the display loop to take a frame (it only waits, in Lock, while the read
\* lock is held).
C9_LastWriteWins ==
    /\ (dpc \in {"runlock", "draw"} => temp = readAt)
    /\ mandelbrotSprite = published
    /\ \A k \in DOMAIN presented :
         k > 1 => presented[k - 1].sprite <= presented[k].sprite
    /\ (/\ Generating /\ gpc # "idle"
        /\ ~(gpc = "lock" /\ mandelbrotMu.r > 0)
        /\ ~(gpc = "start" /\ passes >= MaxPasses)) => GeneratorCanStep

C9_FrameSkipped ==
    \E k \in DOMAIN presented :
        k > 1 /\ presented[k].sprite >= presented[k - 1].sprite + 2

\* C10: the shared handle is non-nil at every read of the display loop: a full
\* pass is published before the goroutine starts and before the first tick,
\* and the handle never goes back to nil.
C10_HandleNonNilAtRead ==
    /\ (started \/ ticks > 0 \/ dpc \in {"spawn", "loop", "rlock", "copy"})
          => published >= 1
    /\ published >= 1 => mandelbrotSprite # Nil
    /\ dpc \in {"runlock", "draw"} => temp # Nil
    /\ dpc # "panicked"

C10_ReadDuringPass ==
    dpc = "draw" /\ temp # Nil /\ gpc = "store" /\ genBy = "go"

====
